---- MODULE Spec2Model ----
(***************************************************************************)
(* core/commands/root.go of go-ipfs: the package-level command tables, the *)
(* init() function that builds the full command tree (Root) and the        *)
(* read-only tree (RootRO), and MessageTextMarshaler.                      *)
(*                                                                         *)
(* The heap is modelled explicitly.  A *Command is a node id (a string     *)
(* naming its allocation site, "Root@25" is the literal of line 25); cmd   *)
(* maps every allocated node to its struct value.  A Go map is a reference *)
(* type, so a children map is a map id ("map@99" is the literal of line    *)
(* 99); maps takes every allocated map to its contents, a function from    *)
(* child names to node ids.  Nil is the nil pointer and the nil map.       *)
(***************************************************************************)
EXTENDS Naturals, Sequences, FiniteSets, TLC

VARIABLES
    pc,                     \* index of the next statement of Program
    err,                    \* startup failure, "none" while there is none
    cmd,                    \* heap of command structs
    maps,                   \* heap of children maps
    Root,                   \* package variables of root.go (pointers, maps)
    CommandsDaemonCmd,
    rootSubcommands,
    rootOldSubcommands,
    RootRO,
    CommandsDaemonROCmd,
    RefsROCmd,
    rootROSubcommands,
    rootROOldSubcommands,
    req,                    \* the request being resolved through a tree
    out,                    \* the last MessageTextMarshaler call and result
    mut                     \* the test harness's last mutation of a map

vars == <<pc, err, cmd, maps, Root, CommandsDaemonCmd, rootSubcommands,
          rootOldSubcommands, RootRO, CommandsDaemonROCmd, RefsROCmd,
          rootROSubcommands, rootROOldSubcommands, req, out, mut>>

pkgvars == <<Root, CommandsDaemonCmd, rootSubcommands, rootOldSubcommands,
             RootRO, CommandsDaemonROCmd, RefsROCmd, rootROSubcommands,
             rootROOldSubcommands>>

Nil == "nil"

\* Longest path followed through a tree (object/patch/add-link has 3 names).
MaxDepth == 3

\* Number of map mutations the test harness performs.
MaxMutations == 1

(***************************************************************************)
(* Command structs                                                         *)
(***************************************************************************)

\* A handler: the function it runs and, for the closure CommandsCmd builds,
\* the root it was given.
NoRun == [fn |-> Nil, root |-> Nil]

\* The zero value of cmds.Command / oldcmds.Command (kind tells which; a
\* legacy command has no OldSubcommands field, kept Nil here).
ZeroCommand(kind) ==
    [kind |-> kind, Helptext |-> "", Options |-> {}, Run |-> NoRun,
     Subcommands |-> Nil, OldSubcommands |-> Nil]

\* Root's literal: help text and the six global options, no children.
RootLiteral ==
    [kind |-> "modern",
     Helptext |-> "Global p2p merkle-dag filesystem.",
     Options |-> {"config", "debug", "help", "h", "local", "api"},
     Run |-> NoRun,
     Subcommands |-> Nil,
     OldSubcommands |-> Nil]

\* CommandsCmd(root): the "commands" command listing the tree under root.
CommandsCmd(root) ==
    [kind |-> "modern",
     Helptext |-> "List all available commands.",
     Options |-> {"flags"},
     Run |-> [fn |-> "commands", root |-> root],
     Subcommands |-> Nil,
     OldSubcommands |-> Nil]

(***************************************************************************)
(* Commands defined in the package's other files and in its subpackages.   *)
(* They are initialised before the variables of root.go that name them.    *)
(***************************************************************************)

ExtModern ==
    {"AddCmd", "BlockCmd", "CatCmd", "GetCmd", "FileStoreCmd",
     "blockStatCmd", "blockGetCmd", "blockPutCmd", "blockRmCmd"}

ExtLegacy ==
    {"BootstrapCmd", "ConfigCmd", "dag.DagCmd", "DhtCmd", "DiagCmd", "DNSCmd",
     "files.FilesCmd", "IDCmd", "KeyCmd", "LogCmd", "LsCmd", "MountCmd",
     "NameCmd", "ocmd.ObjectCmd", "PinCmd", "PingCmd", "PTPCmd", "PubsubCmd",
     "RefsCmd", "RepoCmd", "ResolveCmd", "StatsCmd", "SwarmCmd", "TarCmd",
     "tourCmd", "unixfs.UnixFSCmd", "VersionCmd", "BitswapCmd",
     "daemonShutdownCmd",
     "IpnsCmd", "PublishCmd", "RefsLocalCmd",
     "ocmd.ObjectDataCmd", "ocmd.ObjectLinksCmd", "ocmd.ObjectGetCmd",
     "ocmd.ObjectStatCmd", "ocmd.ObjectPatchCmd", "ocmd.ObjectNewCmd",
     "ocmd.ObjectPutCmd", "ocmd.ObjectDiffCmd",
     "patchAppendDataCmd", "patchAddLinkCmd", "patchRmLinkCmd",
     "patchSetDataCmd",
     "dag.DagGetCmd", "dag.DagPutCmd"}

\* The children maps those commands are declared with.
ExtChildren ==
    [m \in {"BlockCmd.Subcommands", "NameCmd.Subcommands",
            "ocmd.ObjectCmd.Subcommands", "ocmd.ObjectPatchCmd.Subcommands",
            "dag.DagCmd.Subcommands", "RefsCmd.Subcommands"} |->
       CASE m = "BlockCmd.Subcommands" ->
              ("stat" :> "blockStatCmd") @@ ("get" :> "blockGetCmd") @@
              ("put" :> "blockPutCmd") @@ ("rm" :> "blockRmCmd")
         [] m = "NameCmd.Subcommands" ->
              ("publish" :> "PublishCmd") @@ ("resolve" :> "IpnsCmd")
         [] m = "ocmd.ObjectCmd.Subcommands" ->
              ("data" :> "ocmd.ObjectDataCmd") @@
              ("links" :> "ocmd.ObjectLinksCmd") @@
              ("get" :> "ocmd.ObjectGetCmd") @@
              ("stat" :> "ocmd.ObjectStatCmd") @@
              ("patch" :> "ocmd.ObjectPatchCmd") @@
              ("new" :> "ocmd.ObjectNewCmd") @@
              ("put" :> "ocmd.ObjectPutCmd") @@
              ("diff" :> "ocmd.ObjectDiffCmd")
         [] m = "ocmd.ObjectPatchCmd.Subcommands" ->
              ("append-data" :> "patchAppendDataCmd") @@
              ("add-link" :> "patchAddLinkCmd") @@
              ("rm-link" :> "patchRmLinkCmd") @@
              ("set-data" :> "patchSetDataCmd")
         [] m = "dag.DagCmd.Subcommands" ->
              ("put" :> "dag.DagPutCmd") @@ ("get" :> "dag.DagGetCmd")
         [] m = "RefsCmd.Subcommands" ->
              ("local" :> "RefsLocalCmd")]

\* Namespace commands: children, no handler of their own.
ExtNamespaces ==
    {"BlockCmd", "NameCmd", "ocmd.ObjectCmd", "ocmd.ObjectPatchCmd",
     "dag.DagCmd"}

ExtSubcommandsOf(n) ==
    CASE n = "BlockCmd" -> "BlockCmd.Subcommands"
      [] n = "NameCmd" -> "NameCmd.Subcommands"
      [] n = "ocmd.ObjectCmd" -> "ocmd.ObjectCmd.Subcommands"
      [] n = "ocmd.ObjectPatchCmd" -> "ocmd.ObjectPatchCmd.Subcommands"
      [] n = "dag.DagCmd" -> "dag.DagCmd.Subcommands"
      [] n = "RefsCmd" -> "RefsCmd.Subcommands"
      [] OTHER -> Nil

\* Every collaborator supplies help metadata and, for a leaf, a handler.
ExtCommand(n) ==
    [kind |-> IF n \in ExtModern THEN "modern" ELSE "legacy",
     Helptext |-> n,
     Options |-> {},
     Run |-> IF n \in ExtNamespaces THEN NoRun ELSE [fn |-> n, root |-> Nil],
     Subcommands |-> ExtSubcommandsOf(n),
     OldSubcommands |-> Nil]

(***************************************************************************)
(* The tables of root.go                                                   *)
(***************************************************************************)

\* rootSubcommands, lines 99-106.
RootSubcommandsLiteral(commandsDaemonCmd) ==
    ("add" :> "AddCmd") @@
    ("block" :> "BlockCmd") @@
    ("cat" :> "CatCmd") @@
    ("commands" :> commandsDaemonCmd) @@
    ("get" :> "GetCmd") @@
    ("filestore" :> "FileStoreCmd")

\* rootOldSubcommands, lines 108-139; "update" is the node ExternalBinary()
\* returns.
RootOldSubcommandsLiteral(externalBinary) ==
    ("bootstrap" :> "BootstrapCmd") @@
    ("config" :> "ConfigCmd") @@
    ("dag" :> "dag.DagCmd") @@
    ("dht" :> "DhtCmd") @@
    ("diag" :> "DiagCmd") @@
    ("dns" :> "DNSCmd") @@
    ("files" :> "files.FilesCmd") @@
    ("id" :> "IDCmd") @@
    ("key" :> "KeyCmd") @@
    ("log" :> "LogCmd") @@
    ("ls" :> "LsCmd") @@
    ("mount" :> "MountCmd") @@
    ("name" :> "NameCmd") @@
    ("object" :> "ocmd.ObjectCmd") @@
    ("pin" :> "PinCmd") @@
    ("ping" :> "PingCmd") @@
    ("ptp" :> "PTPCmd") @@
    ("pubsub" :> "PubsubCmd") @@
    ("refs" :> "RefsCmd") @@
    ("repo" :> "RepoCmd") @@
    ("resolve" :> "ResolveCmd") @@
    ("stats" :> "StatsCmd") @@
    ("swarm" :> "SwarmCmd") @@
    ("tar" :> "TarCmd") @@
    ("tour" :> "tourCmd") @@
    ("file" :> "unixfs.UnixFSCmd") @@
    ("update" :> externalBinary) @@
    ("version" :> "VersionCmd") @@
    ("bitswap" :> "BitswapCmd") @@
    ("shutdown" :> "daemonShutdownCmd")

\* An allow-list that drifted from the full tree: "cat" names another command.
RootROSubcommandsDrift(commandsDaemonROCmd) ==
    ("commands" :> commandsDaemonROCmd) @@
    ("cat" :> "AddCmd") @@
    ("block" :> "block@151") @@
    ("get" :> "GetCmd")

\* rootROSubcommands, lines 148-158; "block" is the literal of line 151.
RootROSubcommandsLiteral(commandsDaemonROCmd) ==
    ("commands" :> commandsDaemonROCmd) @@
    ("cat" :> "CatCmd") @@
    ("block" :> "block@151") @@
    ("get" :> "GetCmd")

\* The children of the "block" literal, lines 152-155.
ROBlockSubcommandsLiteral ==
    ("stat" :> "blockStatCmd") @@ ("get" :> "blockGetCmd")

\* A legacy table that registers "cat", which the modern table already holds.
RootROOldSubcommandsDup(refsROCmd) ==
    ("cat" :> "LsCmd") @@
    ("dns" :> "DNSCmd") @@
    ("ls" :> "LsCmd") @@
    ("name" :> "name@163") @@
    ("object" :> "object@168") @@
    ("dag" :> "dag@177") @@
    ("refs" :> refsROCmd) @@
    ("resolve" :> "ResolveCmd") @@
    ("version" :> "VersionCmd")

\* rootROOldSubcommands, lines 160-185; "name", "object" and "dag" are the
\* literals of lines 163, 168 and 177.
RootROOldSubcommandsLiteral(refsROCmd) ==
    ("dns" :> "DNSCmd") @@
    ("ls" :> "LsCmd") @@
    ("name" :> "name@163") @@
    ("object" :> "object@168") @@
    ("dag" :> "dag@177") @@
    ("refs" :> refsROCmd) @@
    ("resolve" :> "ResolveCmd") @@
    ("version" :> "VersionCmd")

\* The children of the "name", "object" and "dag" literals.
RONameSubcommandsLiteral == ("resolve" :> "IpnsCmd")

ROObjectSubcommandsLiteral ==
    ("data" :> "ocmd.ObjectDataCmd") @@
    ("links" :> "ocmd.ObjectLinksCmd") @@
    ("get" :> "ocmd.ObjectGetCmd") @@
    ("stat" :> "ocmd.ObjectStatCmd") @@
    ("patch" :> "ocmd.ObjectPatchCmd")

RODagSubcommandsLiteral == ("get" :> "dag.DagGetCmd")

\* A namespace literal that sets nothing but Subcommands.
NamespaceLiteral(kind, m) ==
    [ZeroCommand(kind) EXCEPT !.Subcommands = m]

(***************************************************************************)
(* Reading a tree                                                          *)
(***************************************************************************)

EmptyMap == [k \in {} |-> Nil]

\* The contents of a children map; a nil map reads as empty.
MapOf(m) == IF m = Nil THEN EmptyMap ELSE maps[m]

SubMap(n) == MapOf(cmd[n].Subcommands)
OldMap(n) == MapOf(cmd[n].OldSubcommands)

ChildNames(n) == DOMAIN SubMap(n) \cup DOMAIN OldMap(n)

\* The child a name resolves to: the modern map is looked up first, then the
\* legacy one.
Child(n, name) ==
    IF name \in DOMAIN SubMap(n) THEN SubMap(n)[name]
    ELSE IF name \in DOMAIN OldMap(n) THEN OldMap(n)[name]
    ELSE Nil

\* Every path of at most d names that resolves from node n.
RECURSIVE Paths(_, _)
Paths(n, d) ==
    IF n = Nil THEN {}
    ELSE IF d = 0 THEN {<<>>}
    ELSE {<<>>} \cup
         UNION {{<<k>> \o p : p \in Paths(Child(n, k), d - 1)} :
                k \in ChildNames(n)}

\* The node a path resolves to from node n, Nil when it does not resolve.
RECURSIVE NodeAt(_, _)
NodeAt(n, p) ==
    IF n = Nil THEN Nil
    ELSE IF p = <<>> THEN n
    ELSE NodeAt(Child(n, Head(p)), Tail(p))

Reach(n) == {NodeAt(n, p) : p \in Paths(n, MaxDepth)}

\* The (non-nil) children maps of the nodes reachable from n.
ReachMaps(n) ==
    ({cmd[x].Subcommands : x \in Reach(n)} \cup
     {cmd[x].OldSubcommands : x \in Reach(n)}) \ {Nil}

(***************************************************************************)
(* Package initialisation: the variable initialisers in dependency order   *)
(* (which is declaration order here), then the body of init().             *)
(***************************************************************************)

VarOrder ==
    <<"Root", "CommandsDaemonCmd", "rootSubcommands", "rootOldSubcommands",
      "RootRO", "CommandsDaemonROCmd", "RefsROCmd", "rootROSubcommands",
      "rootROOldSubcommands">>

\* init() with the restricted tree's children attached before the full tree's.
InitBodyReordered ==
    <<"ProcessHelp", "CopyRoot", "CopyRefs", "PruneRefs",
      "RootRO.OldSubcommands", "RootRO.Subcommands",
      "Root.OldSubcommands", "Root.Subcommands">>

\* The statements of init(), lines 188-199.
InitBody ==
    <<"ProcessHelp", "CopyRoot", "CopyRefs", "PruneRefs",
      "Root.OldSubcommands", "Root.Subcommands",
      "RootRO.OldSubcommands", "RootRO.Subcommands">>

Program == VarOrder \o InitBody

At(s) == err = "none" /\ pc <= Len(Program) /\ Program[pc] = s

Done == err = "none" /\ pc = Len(Program) + 1

Goto == pc' = pc + 1

\* var Root = &cmds.Command{...}
VarRoot ==
    /\ At("Root")
    /\ cmd' = cmd @@ ("Root@25" :> RootLiteral)
    /\ Root' = "Root@25"
    /\ Goto
    /\ UNCHANGED <<err, maps, CommandsDaemonCmd, rootSubcommands,
                   rootOldSubcommands, RootRO, CommandsDaemonROCmd, RefsROCmd,
                   rootROSubcommands, rootROOldSubcommands, req, out, mut>>

\* var CommandsDaemonCmd = CommandsCmd(Root)
VarCommandsDaemonCmd ==
    /\ At("CommandsDaemonCmd")
    /\ cmd' = cmd @@ ("CommandsCmd@97" :> CommandsCmd(Root))
    /\ CommandsDaemonCmd' = "CommandsCmd@97"
    /\ Goto
    /\ UNCHANGED <<err, maps, Root, rootSubcommands, rootOldSubcommands,
                   RootRO, CommandsDaemonROCmd, RefsROCmd, rootROSubcommands,
                   rootROOldSubcommands, req, out, mut>>

\* var rootSubcommands = map[string]*cmds.Command{...}
VarRootSubcommands ==
    /\ At("rootSubcommands")
    /\ maps' = maps @@ ("map@99" :> RootSubcommandsLiteral(CommandsDaemonCmd))
    /\ rootSubcommands' = "map@99"
    /\ Goto
    /\ UNCHANGED <<err, cmd, Root, CommandsDaemonCmd, rootOldSubcommands,
                   RootRO, CommandsDaemonROCmd, RefsROCmd, rootROSubcommands,
                   rootROOldSubcommands, req, out, mut>>

\* var rootOldSubcommands = map[string]*oldcmds.Command{...}
VarRootOldSubcommands ==
    /\ At("rootOldSubcommands")
    /\ cmd' = cmd @@ ("ExternalBinary@135" :>
                        [ZeroCommand("legacy") EXCEPT
                           !.Helptext = "ExternalBinary",
                           !.Run = [fn |-> "ExternalBinary", root |-> Nil]])
    /\ maps' = maps @@
               ("map@108" :> RootOldSubcommandsLiteral("ExternalBinary@135"))
    /\ rootOldSubcommands' = "map@108"
    /\ Goto
    /\ UNCHANGED <<err, Root, CommandsDaemonCmd, rootSubcommands, RootRO,
                   CommandsDaemonROCmd, RefsROCmd, rootROSubcommands,
                   rootROOldSubcommands, req, out, mut>>

\* var RootRO = &cmds.Command{}
VarRootRO ==
    /\ At("RootRO")
    /\ cmd' = cmd @@ ("RootRO@142" :> ZeroCommand("modern"))
    /\ RootRO' = "RootRO@142"
    /\ Goto
    /\ UNCHANGED <<err, maps, Root, CommandsDaemonCmd, rootSubcommands,
                   rootOldSubcommands, CommandsDaemonROCmd, RefsROCmd,
                   rootROSubcommands, rootROOldSubcommands, req, out, mut>>

\* var CommandsDaemonROCmd = CommandsCmd(RootRO)
VarCommandsDaemonROCmd ==
    /\ At("CommandsDaemonROCmd")
    /\ cmd' = cmd @@ ("CommandsCmd@144" :> CommandsCmd(RootRO))
    /\ CommandsDaemonROCmd' = "CommandsCmd@144"
    /\ Goto
    /\ UNCHANGED <<err, maps, Root, CommandsDaemonCmd, rootSubcommands,
                   rootOldSubcommands, RootRO, RefsROCmd, rootROSubcommands,
                   rootROOldSubcommands, req, out, mut>>

\* var RefsROCmd = &oldcmds.Command{}
VarRefsROCmd ==
    /\ At("RefsROCmd")
    /\ cmd' = cmd @@ ("RefsROCmd@146" :> ZeroCommand("legacy"))
    /\ RefsROCmd' = "RefsROCmd@146"
    /\ Goto
    /\ UNCHANGED <<err, maps, Root, CommandsDaemonCmd, rootSubcommands,
                   rootOldSubcommands, RootRO, CommandsDaemonROCmd,
                   rootROSubcommands, rootROOldSubcommands, req, out, mut>>

\* var rootROSubcommands = map[string]*cmds.Command{...}
VarRootROSubcommands ==
    /\ At("rootROSubcommands")
    /\ cmd' = cmd @@ ("block@151" :> NamespaceLiteral("modern", "map@152"))
    /\ maps' = maps @@
               ("map@152" :> ROBlockSubcommandsLiteral) @@
               ("map@148" :> RootROSubcommandsLiteral(CommandsDaemonROCmd))
    /\ rootROSubcommands' = "map@148"
    /\ Goto
    /\ UNCHANGED <<err, Root, CommandsDaemonCmd, rootSubcommands,
                   rootOldSubcommands, RootRO, CommandsDaemonROCmd, RefsROCmd,
                   rootROOldSubcommands, req, out, mut>>

\* var rootROOldSubcommands = map[string]*oldcmds.Command{...}
VarRootROOldSubcommands ==
    /\ At("rootROOldSubcommands")
    /\ cmd' = cmd @@
              ("name@163" :> NamespaceLiteral("legacy", "map@164")) @@
              ("object@168" :> NamespaceLiteral("legacy", "map@169")) @@
              ("dag@177" :> NamespaceLiteral("legacy", "map@178"))
    /\ maps' = maps @@
               ("map@164" :> RONameSubcommandsLiteral) @@
               ("map@169" :> ROObjectSubcommandsLiteral) @@
               ("map@178" :> RODagSubcommandsLiteral) @@
               ("map@160" :> RootROOldSubcommandsLiteral(RefsROCmd))
    /\ rootROOldSubcommands' = "map@160"
    /\ Goto
    /\ UNCHANGED <<err, Root, CommandsDaemonCmd, rootSubcommands,
                   rootOldSubcommands, RootRO, CommandsDaemonROCmd, RefsROCmd,
                   rootROSubcommands, req, out, mut>>

\* Root.ProcessHelp(), line 188: help finalisation over the nodes reachable from
\* its receiver when it is called; a node without help is a startup failure.
ProcessHelp ==
    /\ At("ProcessHelp")
    /\ IF \E n \in Reach(Root) : cmd[n].Helptext = ""
       THEN err' = "MissingHelpMetadata" /\ pc' = pc
       ELSE err' = err /\ Goto
    /\ UNCHANGED <<cmd, maps, pkgvars, req, out, mut>>

\* A copy that allocates a new node and rebinds the variable RootRO to it.
CopyRootRebind ==
    /\ At("CopyRoot")
    /\ cmd' = cmd @@ ("RootRO@189" :> cmd[Root])
    /\ RootRO' = "RootRO@189"
    /\ Goto
    /\ UNCHANGED <<err, maps, Root, CommandsDaemonCmd, rootSubcommands,
                   rootOldSubcommands, CommandsDaemonROCmd, RefsROCmd,
                   rootROSubcommands, rootROOldSubcommands, req, out, mut>>

\* *RootRO = *Root, line 189: a copy of the struct value into the node RootRO
\* points to.
CopyRoot ==
    /\ At("CopyRoot")
    /\ cmd' = [cmd EXCEPT ![RootRO] = cmd[Root]]
    /\ Goto
    /\ UNCHANGED <<err, maps, pkgvars, req, out, mut>>

\* *RefsROCmd = *RefsCmd, line 192.
CopyRefs ==
    /\ At("CopyRefs")
    /\ cmd' = [cmd EXCEPT ![RefsROCmd] = cmd["RefsCmd"]]
    /\ Goto
    /\ UNCHANGED <<err, maps, pkgvars, req, out, mut>>

\* A pruning that empties the map the field holds instead of replacing it.
PruneRefsInPlace ==
    /\ At("PruneRefs")
    /\ maps' = [maps EXCEPT ![cmd[RefsROCmd].Subcommands] = EmptyMap]
    /\ Goto
    /\ UNCHANGED <<err, cmd, pkgvars, req, out, mut>>

\* RefsROCmd.Subcommands = map[string]*oldcmds.Command{}, line 193: a new,
\* empty map is stored in the field.
PruneRefs ==
    /\ At("PruneRefs")
    /\ maps' = maps @@ ("map@193" :> EmptyMap)
    /\ cmd' = [cmd EXCEPT ![RefsROCmd].Subcommands = "map@193"]
    /\ Goto
    /\ UNCHANGED <<err, pkgvars, req, out, mut>>

\* Root.OldSubcommands = rootOldSubcommands, line 195.
AssignRootOldSubcommands ==
    /\ At("Root.OldSubcommands")
    /\ cmd' = [cmd EXCEPT ![Root].OldSubcommands = rootOldSubcommands]
    /\ Goto
    /\ UNCHANGED <<err, maps, pkgvars, req, out, mut>>

\* Root.Subcommands = rootSubcommands, line 196.
AssignRootSubcommands ==
    /\ At("Root.Subcommands")
    /\ cmd' = [cmd EXCEPT ![Root].Subcommands = rootSubcommands]
    /\ Goto
    /\ UNCHANGED <<err, maps, pkgvars, req, out, mut>>

\* RootRO.OldSubcommands = rootROOldSubcommands, line 198.
AssignRootROOldSubcommands ==
    /\ At("RootRO.OldSubcommands")
    /\ cmd' = [cmd EXCEPT ![RootRO].OldSubcommands = rootROOldSubcommands]
    /\ Goto
    /\ UNCHANGED <<err, maps, pkgvars, req, out, mut>>

\* The full tree's table stored in the restricted root.
AssignRootROSubcommandsFromRoot ==
    /\ At("RootRO.Subcommands")
    /\ cmd' = [cmd EXCEPT ![RootRO].Subcommands = rootSubcommands]
    /\ Goto
    /\ UNCHANGED <<err, maps, pkgvars, req, out, mut>>

\* RootRO.Subcommands = rootROSubcommands, line 199.
AssignRootROSubcommands ==
    /\ At("RootRO.Subcommands")
    /\ cmd' = [cmd EXCEPT ![RootRO].Subcommands = rootROSubcommands]
    /\ Goto
    /\ UNCHANGED <<err, maps, pkgvars, req, out, mut>>

(***************************************************************************)
(* Requests: after initialisation the entry point selects one of the two   *)
(* trees and resolves a path through it, one name at a time.  Resolution   *)
(* only reads the trees.                                                   *)
(***************************************************************************)

NoRequest == [tree |-> "none", path |-> <<>>, node |-> Nil]

TreeRoot(t) == IF t = "Root" THEN Root ELSE RootRO

SelectTree ==
    /\ Done
    /\ req.tree = "none"
    /\ \E t \in {"Root", "RootRO"} :
          req' = [tree |-> t, path |-> <<>>, node |-> TreeRoot(t)]
    /\ UNCHANGED <<pc, err, cmd, maps, pkgvars, out, mut>>

Descend ==
    /\ Done
    /\ req.tree # "none"
    /\ Len(req.path) < MaxDepth
    /\ \E name \in ChildNames(req.node) :
          req' = [req EXCEPT !.path = Append(@, name),
                             !.node = Child(req.node, name)]
    /\ UNCHANGED <<pc, err, cmd, maps, pkgvars, out, mut>>

Dispatch ==
    /\ Done
    /\ req.tree # "none"
    /\ req' = NoRequest
    /\ UNCHANGED <<pc, err, cmd, maps, pkgvars, out, mut>>

(***************************************************************************)
(* MessageTextMarshaler, lines 202-218                                     *)
(***************************************************************************)

Messages == {"pong", "", "ok"}

\* A payload: its concrete type and, where the type has one, its Message.
Payloads ==
    {[type |-> "*MessageOutput", Message |-> m] : m \in Messages} \cup
    {[type |-> "MessageOutput", Message |-> "pong"],
     [type |-> "*IdOutput", Message |-> ""],
     [type |-> "string", Message |-> "pong"],
     [type |-> "<nil>", Message |-> ""]}

NoErr == [nil |-> TRUE, expected |-> "", actual |-> ""]

\* e.TypeErr(expected, actual): names both types.
TypeErr(expected, actual) ==
    [nil |-> FALSE, expected |-> expected, actual |-> actual]

\* The errors unwrapping an output can end with.
UnwrapErrors ==
    {TypeErr("<-chan interface {}", "string"),
     TypeErr("<-chan interface {}", "*MessageOutput")}

NilPayload == [type |-> "<nil>", Message |-> ""]

\* A response: whether its output unwraps (err is NoErr) and to what.
Responses == [err : UnwrapErrors \cup {NoErr}, val : Payloads]

NilReader == [nil |-> TRUE, s |-> ""]

\* strings.NewReader(s)
NewReader(s) == [nil |-> FALSE, s |-> s]

\* unwrapOutput: the payload under the response's output, or the error that
\* extracting it ends with.
unwrapOutput(o) ==
    IF o.err.nil
    THEN [v |-> o.val, err |-> NoErr]
    ELSE [v |-> NilPayload, err |-> o.err]

\* A marshaler that renders an empty text for a payload of another type.
MessageTextMarshalerSilent(res) ==
    LET u == unwrapOutput(res)
    IN  IF ~u.err.nil THEN [reader |-> NilReader, err |-> u.err]
        ELSE IF u.v.type # "*MessageOutput"
             THEN [reader |-> NewReader(""), err |-> NoErr]
             ELSE [reader |-> NewReader(u.v.Message), err |-> NoErr]

\* MessageTextMarshaler, lines 206-218.
MessageTextMarshaler(res) ==
    LET u == unwrapOutput(res)
    IN  IF ~u.err.nil THEN [reader |-> NilReader, err |-> u.err]
        ELSE IF u.v.type # "*MessageOutput"
             THEN [reader |-> NilReader,
                   err |-> TypeErr("*MessageOutput", u.v.type)]
             ELSE [reader |-> NewReader(u.v.Message), err |-> NoErr]

NoCall ==
    [called |-> FALSE, res |-> [err |-> NoErr, val |-> NilPayload],
     ret |-> [reader |-> NilReader, err |-> NoErr]]

Marshal ==
    /\ Done
    /\ \E res \in Responses :
          out' = [called |-> TRUE, res |-> res,
                  ret |-> MessageTextMarshaler(res)]
    /\ UNCHANGED <<pc, err, cmd, maps, pkgvars, req, mut>>

(***************************************************************************)
(* A test harness that, after initialisation, adds an entry to or removes  *)
(* one from a children map it reaches through one of the two trees.        *)
(* Writing to a nil map panics and deleting from one does nothing, so only *)
(* non-nil maps are mutated.                                               *)
(***************************************************************************)

NoMutation == [n |-> 0, tree |-> "none", path |-> <<>>, field |-> "none"]

Fields == {"Subcommands", "OldSubcommands"}

\* A command of the element type of node n's map f, to insert.
HarnessCommand(n, f) ==
    IF cmd[n].kind = "modern" /\ f = "Subcommands"
    THEN "AddCmd" ELSE "VersionCmd"

HarnessAdd ==
    /\ Done
    /\ mut.n < MaxMutations
    /\ \E t \in {"Root", "RootRO"} :
       \E p \in Paths(TreeRoot(t), MaxDepth) :
       \E f \in Fields :
          LET n == NodeAt(TreeRoot(t), p)
              m == cmd[n][f]
          IN  /\ m # Nil
              /\ "harness" \notin DOMAIN maps[m]
              /\ maps' = [maps EXCEPT
                            ![m] = @ @@ ("harness" :> HarnessCommand(n, f))]
              /\ mut' = [n |-> mut.n + 1, tree |-> t, path |-> p, field |-> f]
    /\ UNCHANGED <<pc, err, cmd, pkgvars, req, out>>

HarnessRemove ==
    /\ Done
    /\ mut.n < MaxMutations
    /\ \E t \in {"Root", "RootRO"} :
       \E p \in Paths(TreeRoot(t), MaxDepth) :
       \E f \in Fields :
          LET n == NodeAt(TreeRoot(t), p)
              m == cmd[n][f]
          IN  /\ m # Nil
              /\ \E k \in DOMAIN maps[m] :
                    maps' = [maps EXCEPT
                               ![m] = [x \in DOMAIN @ \ {k} |-> @[x]]]
              /\ mut' = [n |-> mut.n + 1, tree |-> t, path |-> p, field |-> f]
    /\ UNCHANGED <<pc, err, cmd, pkgvars, req, out>>

(***************************************************************************)
(* Specifications                                                          *)
(***************************************************************************)

Init ==
    /\ pc = 1
    /\ err = "none"
    /\ cmd = [n \in ExtModern \cup ExtLegacy |-> ExtCommand(n)]
    /\ maps = ExtChildren
    /\ Root = Nil
    /\ CommandsDaemonCmd = Nil
    /\ rootSubcommands = Nil
    /\ rootOldSubcommands = Nil
    /\ RootRO = Nil
    /\ CommandsDaemonROCmd = Nil
    /\ RefsROCmd = Nil
    /\ rootROSubcommands = Nil
    /\ rootROOldSubcommands = Nil
    /\ req = NoRequest
    /\ out = NoCall
    /\ mut = NoMutation

Initialise ==
    \/ VarRoot
    \/ VarCommandsDaemonCmd
    \/ VarRootSubcommands
    \/ VarRootOldSubcommands
    \/ VarRootRO
    \/ VarCommandsDaemonROCmd
    \/ VarRefsROCmd
    \/ VarRootROSubcommands
    \/ VarRootROOldSubcommands
    \/ ProcessHelp
    \/ CopyRoot
    \/ CopyRefs
    \/ PruneRefs
    \/ AssignRootOldSubcommands
    \/ AssignRootSubcommands
    \/ AssignRootROOldSubcommands
    \/ AssignRootROSubcommands

\* The program: initialisation, then requests and response rendering.
Next ==
    \/ Initialise
    \/ SelectTree
    \/ Descend
    \/ Dispatch
    \/ Marshal

Spec == Init /\ [][Next]_vars

\* The program under the test harness.
NextHarness ==
    \/ Initialise
    \/ HarnessAdd
    \/ HarnessRemove

SpecHarness == Init /\ [][NextHarness]_vars

(***************************************************************************)
(* Properties                                                              *)
(***************************************************************************)

\* The top-level entries the restricted tree builds for itself instead of
\* sharing the full tree's node.
ROBuiltPaths ==
    {<<"commands">>, <<"refs">>, <<"block">>, <<"name">>, <<"object">>,
     <<"dag">>}

ROPaths == Paths(RootRO, MaxDepth) \ {<<>>}

\* C1 as stated: after init(), every path reachable from RootRO is reachable
\* from Root and ends, in both trees, at the very same node.
C1_SubsetReferenceEqual ==
    Done =>
      \A p \in ROPaths :
         /\ NodeAt(Root, p) # Nil
         /\ NodeAt(RootRO, p) = NodeAt(Root, p)

\* C1 amended: after init(), every path reachable from RootRO is reachable
\* from Root; the two end nodes are the very same node except at the six
\* top-level entries the restricted tree builds for itself (commands, refs,
\* block, name, object, dag), whose children are again the full tree's nodes;
\* the restricted "refs" has the help and the handler of the full tree's.
C1_SubsetSharedLeaves ==
    Done =>
      /\ \A p \in ROPaths :
            /\ NodeAt(Root, p) # Nil
            /\ p \notin ROBuiltPaths => NodeAt(RootRO, p) = NodeAt(Root, p)
            /\ p \in ROBuiltPaths => NodeAt(RootRO, p) # NodeAt(Root, p)
      /\ cmd[NodeAt(RootRO, <<"refs">>)].Helptext =
            cmd[NodeAt(Root, <<"refs">>)].Helptext
      /\ cmd[NodeAt(RootRO, <<"refs">>)].Run =
            cmd[NodeAt(Root, <<"refs">>)].Run

\* A request resolved object/patch/add-link through the restricted tree and
\* stands at the node the full tree has there.
C1_Witness ==
    /\ Done
    /\ req.tree = "RootRO"
    /\ req.path = <<"object", "patch", "add-link">>
    /\ req.node = NodeAt(Root, req.path)
    /\ NodeAt(RootRO, <<"object">>) # NodeAt(Root, <<"object">>)

\* The contents of every children map reachable from node r.
TreeMaps(r) == [m \in ReachMaps(r) |-> maps[m]]

OtherTree(t) == IF t = "Root" THEN "RootRO" ELSE "Root"

\* The step is a mutation by the harness.
Mutated == mut'.n = mut.n + 1

\* C2: adding or removing an entry in any children map reachable from one
\* tree never changes a children map reachable from the other tree.
C2_NoSharedMap ==
    [][\A t \in {"Root", "RootRO"} :
         (Mutated /\ mut'.tree = t) =>
            (TreeMaps(TreeRoot(OtherTree(t))))' =
               TreeMaps(TreeRoot(OtherTree(t)))]_vars

AllowList ==
    {"commands", "cat", "block", "get", "dns", "ls", "name", "object", "dag",
     "refs", "resolve", "version"}

\* C3: after init() the top-level names under RootRO are exactly the
\* allow-list; every other top-level name of the full tree (add, filestore,
\* config, pin, repo, swarm, bootstrap, files, key, shutdown among them) does
\* not resolve under RootRO and resolves under Root; and RootRO never holds
\* one of Root's children maps, the copy *RootRO = *Root included.
C3_AllowList ==
    /\ Done =>
         /\ ChildNames(RootRO) = AllowList
         /\ ChildNames(RootRO) =
               DOMAIN maps[rootROSubcommands] \cup
               DOMAIN maps[rootROOldSubcommands]
         /\ {"add", "filestore", "config", "pin", "repo", "swarm",
             "bootstrap", "files", "key", "shutdown"}
               \subseteq ChildNames(Root) \ AllowList
         /\ \A k \in ChildNames(Root) \ AllowList :
               Child(RootRO, k) = Nil /\ Child(Root, k) # Nil
    /\ (Root # Nil /\ RootRO # Nil) =>
         {cmd[RootRO].Subcommands, cmd[RootRO].OldSubcommands} \cap
         {cmd[Root].Subcommands, cmd[Root].OldSubcommands} \subseteq {Nil}

\* A request resolved "add" through the full tree; the restricted tree is
\* built and does not resolve it.
C3_Witness ==
    /\ Done
    /\ req.tree = "Root"
    /\ req.path = <<"add">>
    /\ req.node = "AddCmd"
    /\ Child(RootRO, "add") = Nil
    /\ cmd[Root].Subcommands # Nil

\* C4: after init() the restricted "refs" node is RefsROCmd, its children map
\* is empty, its help and handler are RefsCmd's, and RefsCmd keeps the
\* children map it was declared with, which the full tree still reaches.
C4_Pruning ==
    Done =>
      /\ Child(RootRO, "refs") = RefsROCmd
      /\ cmd[RefsROCmd].Subcommands # Nil
      /\ ChildNames(RefsROCmd) = {}
      /\ cmd[RefsROCmd].Helptext = cmd["RefsCmd"].Helptext
      /\ cmd[RefsROCmd].Run = cmd["RefsCmd"].Run
      /\ Child(Root, "refs") = "RefsCmd"
      /\ cmd["RefsCmd"].Subcommands = ExtSubcommandsOf("RefsCmd")
      /\ SubMap("RefsCmd") = ExtChildren[ExtSubcommandsOf("RefsCmd")]
      /\ ChildNames("RefsCmd") # {}
      /\ \A k \in ChildNames("RefsCmd") :
            NodeAt(Root, <<"refs", k>>) = SubMap("RefsCmd")[k]

\* A request through the restricted tree stands at the pruned "refs", while
\* the full tree reaches refs/local.
C4_Witness ==
    /\ Done
    /\ req.tree = "RootRO"
    /\ req.path = <<"refs">>
    /\ req.node = RefsROCmd
    /\ ChildNames(req.node) = {}
    /\ NodeAt(Root, <<"refs", "local">>) = "RefsLocalCmd"

\* C6: after init() every node reachable from Root and from RootRO carries
\* help metadata (a namespace node its tagline); otherwise startup has failed
\* with MissingHelpMetadata.
C6_HelpComplete ==
    (pc = Len(Program) + 1) =>
      \/ err = "MissingHelpMetadata"
      \/ \A n \in Reach(Root) \cup Reach(RootRO) : cmd[n].Helptext # ""

RootBuilt ==
    /\ Root # Nil
    /\ cmd[Root].Subcommands # Nil
    /\ cmd[Root].OldSubcommands # Nil

RootROBuilt ==
    /\ RootRO # Nil
    /\ cmd[RootRO].Subcommands # Nil
    /\ cmd[RootRO].OldSubcommands # Nil

TreeState == <<cmd, maps, Root, RootRO>>

\* A children field of a tree's root, once set, is never assigned again.
AssignedOnce ==
    \A r \in {Root, RootRO} \ {Nil} : \A f \in Fields :
       cmd[r][f] # Nil => cmd'[r][f] = cmd[r][f]

\* C8 as stated: the full tree (Root with its children attached) is built
\* before the restricted tree is derived from it: no step writes the node
\* RootRO before Root has its children; each tree is built once; and after
\* init() no step changes a tree.
C8_FullTreeBeforeDerivation ==
    [][/\ (RootRO # Nil /\ RootRO' = RootRO /\ cmd'[RootRO] # cmd[RootRO])
             => RootBuilt
       /\ AssignedOnce
       /\ Done => UNCHANGED TreeState]_vars

\* C8 amended: the full tree is complete before the restricted tree is
\* complete (Root's children are attached before RootRO's), although the
\* header copy *RootRO = *Root is taken before Root's children are attached;
\* each children field is assigned once; and after init() no step changes a
\* tree.
C8_Lifecycle ==
    [][/\ RootROBuilt' => RootBuilt'
       /\ (RootRO # Nil /\ RootRO' = RootRO /\ cmd'[RootRO] # cmd[RootRO])
             => (RootBuilt \/ cmd'[RootRO] = cmd[Root])
       /\ AssignedOnce
       /\ Done => UNCHANGED TreeState]_vars

\* Both trees are built, a request is being resolved and a response has been
\* rendered.
C8_Witness ==
    /\ Done
    /\ RootBuilt
    /\ RootROBuilt
    /\ req.tree = "RootRO"
    /\ Len(req.path) = 2
    /\ out.called

\* C9: after init() no parent reachable from Root or RootRO has a child name
\* in both its Subcommands and its OldSubcommands map; "files" and "file"
\* are two registrations that resolve to different commands.
C9_NamesUnique ==
    Done =>
      /\ \A n \in Reach(Root) \cup Reach(RootRO) :
            DOMAIN SubMap(n) \cap DOMAIN OldMap(n) = {}
      /\ Child(Root, "files") # Nil
      /\ Child(Root, "file") # Nil
      /\ Child(Root, "files") # Child(Root, "file")

\* A request resolved "file" through the full tree, whose root holds names
\* in both of its maps.
C9_Witness ==
    /\ Done
    /\ req.tree = "Root"
    /\ req.path = <<"file">>
    /\ req.node = "unixfs.UnixFSCmd"
    /\ DOMAIN SubMap(Root) # {}
    /\ DOMAIN OldMap(Root) # {}

\* C10: the "commands" entries hold the references captured when the package
\* variables were initialised; init() never rebinds Root or RootRO, so after
\* init() the restricted entry's reference denotes the populated restricted
\* tree (not the full tree, not an empty node) and the full tree's entry's
\* reference denotes the populated full tree.
C10_CommandsBinding ==
    /\ CommandsDaemonCmd # Nil =>
          /\ cmd[CommandsDaemonCmd].Run.root = Root
          /\ Root = "Root@25"
    /\ CommandsDaemonROCmd # Nil =>
          /\ cmd[CommandsDaemonROCmd].Run.root = RootRO
          /\ RootRO = "RootRO@142"
    /\ Done =>
          LET ro == cmd[Child(RootRO, "commands")].Run.root
              rw == cmd[Child(Root, "commands")].Run.root
          IN  /\ Child(RootRO, "commands") = CommandsDaemonROCmd
              /\ Child(Root, "commands") = CommandsDaemonCmd
              /\ ro # rw
              /\ cmd[ro].Subcommands = rootROSubcommands
              /\ cmd[ro].OldSubcommands = rootROOldSubcommands
              /\ ChildNames(ro) = AllowList
              /\ cmd[rw].Subcommands = rootSubcommands
              /\ cmd[rw].OldSubcommands = rootOldSubcommands
              /\ Child(rw, "add") = "AddCmd"

\* A request stands at the restricted "commands" entry, whose captured root
\* resolves "block" to the restricted namespace.
C10_Witness ==
    /\ Done
    /\ req.tree = "RootRO"
    /\ req.path = <<"commands">>
    /\ cmd[req.node].Run.root = RootRO
    /\ Child(cmd[req.node].Run.root, "block") = "block@151"

====
